---- MODULE Spec2Model ----
(***************************************************************************)
(* Book REST service: process start-up (database.InitDB, main) and the     *)
(* five request handlers of controllers/book_controller.go, run against a  *)
(* model of the MySQL table `books` that InitDB creates.                   *)
(*                                                                         *)
(* Every handler issues at most one SQL statement and keeps no state of    *)
(* its own besides its locals, so a request is one atomic step at the      *)
(* statement it issues; concurrent requests are the interleavings of       *)
(* these steps.                                                            *)
(*                                                                         *)
(* The store is MySQL as the DSN of InitDB connects to it: no parameters,  *)
(* so the affected-row count of an UPDATE is the number of rows CHANGED    *)
(* (clientFoundRows is off), and the server's default strict SQL mode      *)
(* rejects a value that does not fit its column.                           *)
(***************************************************************************)
EXTENDS Integers, Sequences, FiniteSets, TLC

\* Number of INSERT statements the model lets the store execute.
MaxId == 2

\* Number of delete requests the concurrent specification runs side by side.
NProcs == 2

\* VARCHAR(255) of the title and author columns.
VarcharMax == 255

VARIABLES
    pc,        \* position of main / InitDB
    env,       \* what the process finds around it: configuration, database, port
    steps,     \* start-up steps completed, in order
    table,     \* rows of the books table
    nextId,    \* AUTO_INCREMENT counter of the books table
    last,      \* the last request served and its response
    before,    \* the table as it was when the last request arrived
    issued,    \* ids returned by creates answered 201, in order
    created,   \* rows as submitted by 201 creates, not targeted by update/delete since
    deleted,   \* ids whose delete was answered 200
    expected,  \* per id the latest successful create/update, minus successful deletes
               \* (kept while not dirty)
    dirty,     \* some create/update/delete was answered 500
    procs      \* the DeleteBook calls in flight, statement by statement (SpecConc)

vars == <<pc, env, steps, table, nextId, last, before, issued, created, deleted,
          expected, dirty, procs>>

storeVars ==
    <<table, nextId, last, before, issued, created, deleted, expected, dirty, procs>>

----------------------------------------------------------------------------
\* Text and numbers

\* A text of VarcharMax + 1 characters.
LongText == "L256"

\* Length of the texts the model uses.
StrLen(s) == IF s = "" THEN 0 ELSE IF s = LongText THEN VarcharMax + 1 ELSE 4

Digits == <<"0", "1", "2", "3", "4", "5", "6", "7", "8", "9">>

IsDigit(c) == \E d \in 1..10 : Digits[d] = c

DigitVal(c) == (CHOOSE d \in 1..10 : Digits[d] = c) - 1

RECURSIVE Number(_)
Number(s) ==
    IF s = <<>> THEN 0
    ELSE 10 * Number(SubSeq(s, 1, Len(s) - 1)) + DigitVal(s[Len(s)])

\* strconv.Atoi on a text given as its characters: an optional sign, then
\* one or more decimal digits.
Atoi(s) ==
    LET signed == s # <<>> /\ s[1] \in {"+", "-"}
        digits == IF signed THEN Tail(s) ELSE s
    IN  IF digits = <<>> \/ \E i \in 1..Len(digits) : ~IsDigit(digits[i])
        THEN [err |-> TRUE, val |-> 0]
        ELSE [err |-> FALSE,
              val |-> IF signed /\ s[1] = "-" THEN -Number(digits) ELSE Number(digits)]

\* The decimal text of a small id, as a client writes it in the path.
PathOf(i) == <<Digits[i + 1]>>

----------------------------------------------------------------------------
\* models.Book and the JSON bodies

ZeroBook == [ID |-> 0, Title |-> "", Author |-> "", Year |-> 0]

\* A request body: not JSON for a Book (wf = FALSE), or a JSON object with
\* the fields named in has.
JsonBody(has, id, title, author, year) ==
    [wf |-> TRUE, has |-> has, id |-> id, title |-> title, author |-> author,
     year |-> year]

Malformed == [wf |-> FALSE, has |-> {}, id |-> 0, title |-> "", author |-> "", year |-> 0]

NoBody == JsonBody({}, 0, "", "", 0)

TAY == {"title", "author", "year"}

\* json.NewDecoder(r.Body).Decode(&book): a field the object lacks keeps
\* the zero value of the struct.
Decode(b) ==
    IF ~b.wf THEN [err |-> TRUE, book |-> ZeroBook]
    ELSE [err |-> FALSE,
          book |-> [ID     |-> IF "id" \in b.has THEN b.id ELSE 0,
                    Title  |-> IF "title" \in b.has THEN b.title ELSE "",
                    Author |-> IF "author" \in b.has THEN b.author ELSE "",
                    Year   |-> IF "year" \in b.has THEN b.year ELSE 0]]

\* Mutant: the year is not checked.
MissingRequired_NoYear(book) == book.Title = "" \/ book.Author = ""

\* Mutant: && in place of ||.
MissingRequired_And(book) == book.Title = "" /\ book.Author = "" /\ book.Year = 0

\* The validation of CreateBook and UpdateBook.
MissingRequired(book) == book.Title = "" \/ book.Author = "" \/ book.Year = 0

----------------------------------------------------------------------------
\* Start-up

ConfigKeys == {"MYSQL_USER", "MYSQL_PASSWORD", "MYSQL_DATABASE", "MYSQL_HOST", "MYSQL_PORT"}

Envs ==
    [config : [ConfigKeys -> {"", "set"}], openOk : BOOLEAN, pingOk : BOOLEAN,
     createOk : BOOLEAN, listenOk : BOOLEAN]

\* Mutant: && in place of ||.
CredsMissing_All(e) == \A k \in ConfigKeys : e.config[k] = ""

CredsMissing(e) == \E k \in ConfigKeys : e.config[k] = ""

NoRequest == [op |-> "none", path |-> <<>>, body |-> NoBody, fault |-> "none"]

NoOut == [kind |-> "none", book |-> ZeroBook, isNil |-> TRUE, books |-> <<>>]

Procs == 1..NProcs

\* A DeleteBook call that no request has started yet.
Idle ==
    [pc |-> "idle", id |-> 0, existed |-> FALSE, overlap |-> FALSE,
     rowsAffected |-> 0, failed |-> FALSE, status |-> 0]

Init ==
    /\ pc = "loadenv"
    /\ env \in Envs
    /\ steps = <<>>
    /\ table = {}
    /\ nextId = 1
    /\ last = [req |-> NoRequest, status |-> 0, stmt |-> "none", out |-> NoOut]
    /\ before = {}
    /\ issued = <<>>
    /\ created = {}
    /\ deleted = {}
    /\ expected = {}
    /\ dirty = FALSE
    /\ procs = [p \in Procs |-> Idle]

\* One start-up step: on success go on to `to`, on failure the error is
\* returned to main, which ends the process with log.Fatalf.
Step(ok, name, to) ==
    /\ IF ok
       THEN pc' = to /\ steps' = Append(steps, name)
       ELSE pc' = "exited" /\ steps' = steps
    /\ UNCHANGED <<env, storeVars>>

\* godotenv.Load: whether or not the .env file loads (a failure is only
\* logged), start-up goes on with the environment it then has.
LoadEnv ==
    /\ pc = "loadenv"
    /\ \E loaded \in BOOLEAN : Step(TRUE, "env", "creds")

CheckCreds ==
    /\ pc = "creds"
    /\ Step(~CredsMissing(env), "creds", "open")

Open ==
    /\ pc = "open"
    /\ Step(env.openOk, "open", "ping")

Ping ==
    /\ pc = "ping"
    /\ Step(env.pingOk, "ping", "create")

CreateTable ==
    /\ pc = "create"
    /\ Step(env.createOk, "create", "routes")

SetupRoutes ==
    /\ pc = "routes"
    /\ Step(TRUE, "routes", "listen")

ListenAndServe ==
    /\ pc = "listen"
    /\ Step(env.listenOk, "listen", "serving")

----------------------------------------------------------------------------
\* The books table (MySQL)

Row(id, book) == [id |-> id, title |-> book.Title, author |-> book.Author, year |-> book.Year]

\* rows.Scan(&book.ID, &book.Title, &book.Author, &book.Year) on the columns
\* id, title, author, YEAR.
ScanBook(r) == [ID |-> r.id, Title |-> r.title, Author |-> r.author, Year |-> r.year]

\* Strict SQL mode: a text longer than its VARCHAR(255) column fails the
\* statement. (The years of the model all fit the INT column.)
FitsColumns(book) ==
    /\ StrLen(book.Title) <= VarcharMax
    /\ StrLen(book.Author) <= VarcharMax

\* Mutant: the id after the largest one in the table.
AllocId_MaxPlusOne(t, n) ==
    IF t = {} THEN 1 ELSE 1 + (CHOOSE m \in {r.id : r \in t} : \A r \in t : r.id <= m)

\* id INT AUTO_INCREMENT PRIMARY KEY: the id an INSERT gets, and the counter
\* after it.
AllocId(t, n) == n

\* Mutant: the counter does not move.
AdvanceCounter_Stuck(n) == n

AdvanceCounter(n) == n + 1

\* Mutant: the values bound to the wrong columns.
InsertRow_Swapped(t, id, book) ==
    t \cup {[id |-> id, title |-> book.Author, author |-> book.Title, year |-> book.Year]}

\* Mutant: the id of the body goes into the id column when it is given.
InsertRow_BodyId(t, id, book) == t \cup {Row(IF book.ID # 0 THEN book.ID ELSE id, book)}

\* INSERT INTO books (title, author, year) VALUES (?, ?, ?)
InsertRow(t, id, book) == t \cup {Row(id, book)}

\* SELECT id, title, author, YEAR FROM books WHERE id = ?
SelectById(t, id) == {r \in t : r.id = id}

\* SELECT id, title, author, YEAR FROM books: the rows in an order the
\* statement leaves to the server.
Orders(t) ==
    {o \in [1..Cardinality(t) -> t] : \A i, j \in 1..Cardinality(t) : o[i] = o[j] => i = j}

\* Mutant: an upsert.
UpdateRows_Upsert(t, id, book) == {r \in t : r.id # id} \cup {Row(id, book)}

\* UPDATE books SET title = ?, author = ?, year = ? WHERE id = ?
UpdateRows(t, id, book) == {IF r.id = id THEN Row(id, book) ELSE r : r \in t}

\* What RowsAffected reports after the UPDATE: the rows it changed. A row
\* that already holds the new values is matched but not counted.
UpdateAffected(t, id, book) == Cardinality({r \in t : r.id = id /\ r # Row(id, book)})

\* DELETE FROM books WHERE id = ?
DeleteRows(t, id) == {r \in t : r.id # id}

\* Mutant: the count is not that of the rows this statement deleted.
DeleteAffected_NotCounted(t, id) == 1

DeleteAffected(t, id) == Cardinality({r \in t : r.id = id})

----------------------------------------------------------------------------
\* Responses

Result(status, stmt, out, t, n) ==
    [status |-> status, stmt |-> stmt, out |-> out, table |-> t, nextId |-> n]

\* http.Error: a plain-text message.
TextOut == [kind |-> "text", book |-> ZeroBook, isNil |-> TRUE, books |-> <<>>]

BookOut(book) == [kind |-> "book", book |-> book, isNil |-> TRUE, books |-> <<>>]

\* A []models.Book as json encodes it: null for a nil slice, else an array.
BooksOut(slice) ==
    [kind |-> "books", book |-> ZeroBook, isNil |-> slice.isNil, books |-> slice.elems]

MessageOut == [kind |-> "message", book |-> ZeroBook, isNil |-> TRUE, books |-> <<>>]

\* Mutant: the error of Atoi is dropped.
PathId_IgnoreErr(path) == [err |-> FALSE, val |-> Atoi(path).val]

\* mux.Vars(r)["id"] through strconv.Atoi.
PathId(path) == Atoi(path)

----------------------------------------------------------------------------
\* Handlers: the response and the store after it, from the request and the
\* store before it. req.fault is what the database/sql calls of the request
\* return: "none", an error from Exec/Query ("exec": the statement had no
\* effect), or an error from reading the result of an executed statement
\* ("result": Scan, rows.Err, LastInsertId, RowsAffected).

\* Mutant: var books []models.Book
EmptySlice_Nil == [isNil |-> TRUE, elems |-> <<>>]

\* books := []models.Book{}
EmptySlice == [isNil |-> FALSE, elems |-> <<>>]

\* for rows.Next() { ... books = append(books, book) }
RECURSIVE AppendAll(_, _)
AppendAll(slice, rows) ==
    IF rows = <<>> THEN slice
    ELSE AppendAll([isNil |-> FALSE, elems |-> Append(slice.elems, ScanBook(Head(rows)))],
                   Tail(rows))

GetBooksHandler(req, t, n, rows) ==
    IF req.fault = "exec" THEN Result(500, "select", TextOut, t, n)
    ELSE LET books == AppendAll(EmptySlice, rows)
         IN  IF req.fault = "result" THEN Result(500, "select", TextOut, t, n)
             ELSE Result(200, "select", BooksOut(books), t, n)

GetBookHandler(req, t, n) ==
    LET p == PathId(req.path)
    IN  IF p.err THEN Result(400, "none", TextOut, t, n)
        ELSE LET rows == SelectById(t, p.val)
             IN  IF req.fault # "none" THEN Result(500, "select", TextOut, t, n)
                 ELSE IF rows = {} THEN Result(404, "select", TextOut, t, n)
                 ELSE Result(200, "select", BookOut(ScanBook(CHOOSE r \in rows : TRUE)), t, n)

CreateBookHandler(req, t, n) ==
    LET d == Decode(req.body)
    IN  IF d.err THEN Result(400, "none", TextOut, t, n)
        ELSE IF MissingRequired(d.book) THEN Result(400, "none", TextOut, t, n)
        ELSE IF req.fault = "exec" \/ ~FitsColumns(d.book)
             THEN Result(500, "insert", TextOut, t, n)
        ELSE LET id == AllocId(t, n)
                 t2 == InsertRow(t, id, d.book)
                 n2 == AdvanceCounter(n)
             IN  IF req.fault = "result" THEN Result(500, "insert", TextOut, t2, n2)
                 ELSE Result(201, "insert", BookOut([d.book EXCEPT !.ID = id]), t2, n2)

\* The UPDATE stores its values only in a row it matches, so an over-long
\* text fails it only then.
UpdateBookHandler(req, t, n) ==
    LET p == PathId(req.path)
        d == Decode(req.body)
    IN  IF p.err THEN Result(400, "none", TextOut, t, n)
        ELSE IF d.err THEN Result(400, "none", TextOut, t, n)
        ELSE IF MissingRequired(d.book) THEN Result(400, "none", TextOut, t, n)
        ELSE IF req.fault = "exec" \/ (SelectById(t, p.val) # {} /\ ~FitsColumns(d.book))
             THEN Result(500, "update", TextOut, t, n)
        ELSE LET t2 == UpdateRows(t, p.val, d.book)
                 rowsAffected == UpdateAffected(t, p.val, d.book)
             IN  IF req.fault = "result" THEN Result(500, "update", TextOut, t2, n)
                 ELSE IF rowsAffected = 0 THEN Result(404, "update", TextOut, t2, n)
                 ELSE Result(200, "update", BookOut([d.book EXCEPT !.ID = p.val]), t2, n)

DeleteBookHandler(req, t, n) ==
    LET p == PathId(req.path)
    IN  IF p.err THEN Result(400, "none", TextOut, t, n)
        ELSE IF req.fault = "exec" THEN Result(500, "delete", TextOut, t, n)
        ELSE LET t2 == DeleteRows(t, p.val)
                 rowsAffected == DeleteAffected(t, p.val)
             IN  IF req.fault = "result" THEN Result(500, "delete", TextOut, t2, n)
                 ELSE IF rowsAffected = 0 THEN Result(404, "delete", TextOut, t2, n)
                 ELSE Result(200, "delete", MessageOut, t2, n)

----------------------------------------------------------------------------
\* Requests the clients send

Faults == {"none", "exec", "result"}

PathIds == {PathOf(1), PathOf(2), <<"0", "1">>, <<"1", "x">>}

Bodies ==
    { Malformed,
      NoBody,
      JsonBody(TAY, 0, "Dune", "Herbert", 1965),
      JsonBody(TAY \cup {"id"}, 7, "Emma", "Herbert", 1966),
      JsonBody(TAY, 0, "", "Herbert", 1965),
      JsonBody(TAY, 0, "Dune", "", 1965),
      JsonBody(TAY, 0, "Dune", "Herbert", 0),
      JsonBody(TAY, 0, LongText, "Herbert", 1965) }

Request(op, path, body, fault) == [op |-> op, path |-> path, body |-> body, fault |-> fault]

\* A database/sql call can only fail in a request that makes one.
FaultHappens(fault, res) == fault # "none" => res.stmt # "none"

\* The request is served: the store and the response are the handler's, and
\* the history variables record what the client saw.
Serve(req, res) ==
    LET p    == Atoi(req.path)
        book == Decode(req.body).book
        failed == req.op \in {"create", "update", "delete"} /\ res.status = 500
    IN
    /\ pc = "serving"
    /\ before' = table
    /\ table' = res.table
    /\ nextId' = res.nextId
    /\ last' = [req |-> req, status |-> res.status, stmt |-> res.stmt, out |-> res.out]
    /\ issued' = IF req.op = "create" /\ res.status = 201
                 THEN Append(issued, res.out.book.ID) ELSE issued
    /\ created' =
         IF req.op = "create" /\ res.status = 201
         THEN created \cup {Row(res.out.book.ID, book)}
         ELSE IF req.op \in {"update", "delete"} /\ ~p.err
         THEN {c \in created : c.id # p.val}
         ELSE created
    /\ deleted' = IF req.op = "delete" /\ res.status = 200
                  THEN deleted \cup {p.val} ELSE deleted
    /\ expected' =
         IF dirty \/ failed THEN {}
         ELSE IF req.op = "create" /\ res.status = 201
         THEN {e \in expected : e.id # res.out.book.ID} \cup {Row(res.out.book.ID, book)}
         ELSE IF req.op = "update" /\ res.status = 200
         THEN {e \in expected : e.id # p.val} \cup {Row(p.val, book)}
         ELSE IF req.op = "delete" /\ res.status = 200
         THEN {e \in expected : e.id # p.val}
         ELSE expected
    /\ dirty' = (dirty \/ failed)
    /\ UNCHANGED <<pc, env, steps, procs>>

GetBooks ==
    \E fault \in Faults, rows \in Orders(table) :
        LET req == Request("list", <<>>, NoBody, fault)
            res == GetBooksHandler(req, table, nextId, rows)
        IN  FaultHappens(fault, res) /\ Serve(req, res)

GetBook ==
    \E path \in PathIds, fault \in Faults :
        LET req == Request("get", path, NoBody, fault)
            res == GetBookHandler(req, table, nextId)
        IN  FaultHappens(fault, res) /\ Serve(req, res)

CreateBook ==
    \E body \in Bodies, fault \in Faults :
        LET req == Request("create", <<>>, body, fault)
            res == CreateBookHandler(req, table, nextId)
        IN  nextId <= MaxId /\ FaultHappens(fault, res) /\ Serve(req, res)

UpdateBook ==
    \E path \in PathIds, body \in Bodies, fault \in Faults :
        LET req == Request("update", path, body, fault)
            res == UpdateBookHandler(req, table, nextId)
        IN  FaultHappens(fault, res) /\ Serve(req, res)

DeleteBook ==
    \E path \in PathIds, fault \in Faults :
        LET req == Request("delete", path, NoBody, fault)
            res == DeleteBookHandler(req, table, nextId)
        IN  FaultHappens(fault, res) /\ Serve(req, res)

Next ==
    \/ LoadEnv
    \/ CheckCreds
    \/ Open
    \/ Ping
    \/ CreateTable
    \/ SetupRoutes
    \/ ListenAndServe
    \/ GetBooks
    \/ GetBook
    \/ CreateBook
    \/ UpdateBook
    \/ DeleteBook

Spec == Init /\ [][Next]_vars

----------------------------------------------------------------------------
\* DeleteBook, call by call: requests run side by side, one goroutine each,
\* and meet only in the store, where each statement is atomic. The rows they
\* delete come from creates answered 201, which may arrive at any moment.

histVars == <<last, before, issued, created, deleted, expected, dirty>>

InFlight(q) == procs[q].pc \in {"exec", "result"}

\* The request arrives: mux.Vars and strconv.Atoi. Requests are numbered in
\* the order they arrive.
DeleteReceive(p) ==
    /\ pc = "serving"
    /\ procs[p].pc = "idle"
    /\ \A q \in Procs : q < p => procs[q].pc # "idle"
    /\ \E path \in PathIds :
          LET id == PathId(path)
          IN  procs' = [procs EXCEPT ![p] =
                  IF id.err
                  THEN [@ EXCEPT !.pc = "done", !.status = 400]
                  ELSE [@ EXCEPT !.pc = "exec", !.id = id.val,
                                 !.existed = SelectById(table, id.val) # {},
                                 !.overlap = \E q \in Procs \ {p} :
                                                 InFlight(q) /\ procs[q].id = id.val]]
    /\ UNCHANGED <<pc, env, steps, table, nextId, histVars>>

\* db.Exec("DELETE FROM books WHERE id = ?", id)
DeleteExec(p) ==
    /\ pc = "serving"
    /\ procs[p].pc = "exec"
    /\ \E err \in BOOLEAN :
          IF err
          THEN /\ procs' = [procs EXCEPT ![p] =
                       [@ EXCEPT !.pc = "done", !.failed = TRUE, !.status = 500]]
               /\ table' = table
          ELSE /\ procs' = [procs EXCEPT ![p] =
                       [@ EXCEPT !.pc = "result",
                                 !.rowsAffected = DeleteAffected(table, procs[p].id)]]
               /\ table' = DeleteRows(table, procs[p].id)
    /\ UNCHANGED <<pc, env, steps, nextId, histVars>>

\* result.RowsAffected() and the response.
DeleteRespond(p) ==
    /\ pc = "serving"
    /\ procs[p].pc = "result"
    /\ \E err \in BOOLEAN :
          procs' = [procs EXCEPT ![p] =
              IF err THEN [@ EXCEPT !.pc = "done", !.failed = TRUE, !.status = 500]
              ELSE IF procs[p].rowsAffected = 0 THEN [@ EXCEPT !.pc = "done", !.status = 404]
              ELSE [@ EXCEPT !.pc = "done", !.status = 200]]
    /\ UNCHANGED <<pc, env, steps, table, nextId, histVars>>

NextConc ==
    \/ LoadEnv
    \/ CheckCreds
    \/ Open
    \/ Ping
    \/ CreateTable
    \/ SetupRoutes
    \/ ListenAndServe
    \/ CreateBook /\ last'.status = 201
    \/ \E p \in Procs : DeleteReceive(p)
    \/ \E p \in Procs : DeleteExec(p)
    \/ \E p \in Procs : DeleteRespond(p)

SpecConc == Init /\ [][NextConc]_vars

----------------------------------------------------------------------------
\* Properties

\* The last request, as the client sent it.
LastOp == last.req.op

LastId == Atoi(last.req.path)

LastBody == last.req.body

LastBook == Decode(last.req.body).book

ValidBook(book) == book.Title # "" /\ book.Author # "" /\ book.Year # 0

ValidBody(b) == b.wf /\ ValidBook(Decode(b).book)

AsBook(r) == [ID |-> r.id, Title |-> r.title, Author |-> r.author, Year |-> r.year]

RowExisted(id) == \E r \in before : r.id = id

\* C1: a get-by-id of an id that a create answered 201 returned, with no
\* update or delete of that id since, is answered (unless the store fails:
\* 500) 200 with that id and the title, author and year the create
\* submitted.
C1_CreateGetRoundTrip ==
    (LastOp = "get" /\ ~LastId.err /\ last.status # 500) =>
        \A c \in created :
            c.id = LastId.val =>
                /\ last.status = 200
                /\ last.out.kind = "book"
                /\ last.out.book = AsBook(c)

C1_Witness ==
    /\ LastOp = "get"
    /\ last.status = 200
    /\ \E c \in created : c.id = LastId.val /\ last.out.book = AsBook(c)
    /\ deleted # {}

\* C2: the ids returned by creates answered 201 are pairwise distinct, also
\* after deletes, and no two rows of the table share an id.
C2_IdsUnique ==
    /\ \A i, j \in 1..Len(issued) : issued[i] = issued[j] => i = j
    /\ \A r1, r2 \in table : r1.id = r2.id => r1 = r2

C2_Witness ==
    /\ LastOp = "create"
    /\ last.status = 201
    /\ Len(issued) = 2
    /\ issued[1] \in deleted
    /\ last.out.book.ID = issued[2]

\* C3: an update with an integer path id and a valid body is answered
\* (unless the store fails: 500) 404 exactly when no row has that id, and
\* 200 with the path id and the body's title, author and year whenever a
\* row has it, whatever the row stores.
C3_UpdateStatusMapping ==
    (LastOp = "update" /\ ~LastId.err /\ ValidBody(LastBody) /\ last.status # 500) =>
        /\ last.status = 404 <=> ~RowExisted(LastId.val)
        /\ RowExisted(LastId.val) =>
               /\ last.status = 200
               /\ last.out.kind = "book"
               /\ last.out.book = [LastBook EXCEPT !.ID = LastId.val]

\* C4: a create or update whose body decodes to an empty title, an empty
\* author or a zero year is answered 400 and leaves the table as it was.
C4_InvalidBodyRejected ==
    (LastOp \in {"create", "update"} /\ LastBody.wf /\ ~ValidBook(LastBook)) =>
        /\ last.status = 400
        /\ last.stmt = "none"
        /\ table = before

C4_Witness ==
    /\ LastOp = "update"
    /\ ~LastId.err
    /\ RowExisted(LastId.val)
    /\ LastBody.wf
    /\ LastBook.Title # ""
    /\ LastBook.Author # ""
    /\ LastBook.Year = 0
    /\ last.status = 400

\* C5: every row of the table has a non-empty title, a non-empty author and
\* a non-zero year.
C5_RowsValid == \A r \in table : r.title # "" /\ r.author # "" /\ r.year # 0

C5_Witness ==
    /\ LastOp = "update"
    /\ last.status = 200
    /\ Cardinality(table) = 2
    /\ table # before

\* C6: once a delete of id i was answered 200, every later get, update with
\* a valid body and delete of i is answered 404 (unless the store fails:
\* 500), however many creates came in between.
C6_DeletedStaysNotFound ==
    [][ \A i \in deleted :
          ( /\ last'.req.op \in {"get", "update", "delete"}
            /\ Atoi(last'.req.path) = [err |-> FALSE, val |-> i]
            /\ last'.req.op = "update" => ValidBody(last'.req.body)
            /\ last'.status # 500 )
          => last'.status = 404 ]_vars

C6_Witness ==
    /\ LastOp = "delete"
    /\ ~LastId.err
    /\ LastId.val \in deleted
    /\ last.status = 404
    /\ Len(issued) = 2
    /\ issued[2] > LastId.val

\* C7 as stated: an update whose (integer) path id matches no row is
\* answered 404 (unless the store fails: 500) and leaves the table as it was.
C7_AsStated ==
    (LastOp = "update" /\ ~LastId.err /\ ~RowExisted(LastId.val) /\ last.status # 500) =>
        /\ last.status = 404
        /\ table = before

\* C7, amended: an update whose integer path id matches no row leaves the
\* table as it was, and is answered 404 when its body is valid and 400 when
\* its body is undecodable or invalid (unless the store fails: 500).
C7_UpdateNeverInserts ==
    (LastOp = "update" /\ ~LastId.err /\ ~RowExisted(LastId.val) /\ last.status # 500) =>
        /\ last.status = IF ValidBody(LastBody) THEN 404 ELSE 400
        /\ table = before

C7_Witness ==
    /\ LastOp = "update"
    /\ ~LastId.err
    /\ ~RowExisted(LastId.val)
    /\ ValidBody(LastBody)
    /\ last.status = 404
    /\ table # {}

\* C8: when every create, update and delete so far was answered without a
\* storage error, a list that is answered (no storage error: not 500) is
\* answered 200 with an array, never null, that holds one entry per id
\* created and not since deleted, with the title, author and year of the
\* latest successful create or update of that id, and nothing else.
C8_ListExact ==
    (LastOp = "list" /\ last.status # 500 /\ ~dirty) =>
        /\ last.status = 200
        /\ last.out.kind = "books"
        /\ ~last.out.isNil
        /\ Len(last.out.books) = Cardinality(expected)
        /\ {last.out.books[i] : i \in 1..Len(last.out.books)} = {AsBook(e) : e \in expected}

C8_Witness ==
    /\ LastOp = "list"
    /\ last.status = 200
    /\ ~dirty
    /\ Len(last.out.books) = 1
    /\ deleted # {}
    /\ expected # created

\* C9: a get, update or delete whose path identifier is no integer is
\* answered 400 with no statement issued and the table as it was, for
\* update whatever the body is.
C9_MalformedId ==
    (LastOp \in {"get", "update", "delete"} /\ LastId.err) =>
        /\ last.status = 400
        /\ last.stmt = "none"
        /\ table = before

C9_Witness ==
    /\ LastOp = "update"
    /\ LastId.err
    /\ ValidBody(LastBody)
    /\ last.status = 400
    /\ table # {}

Position(name) == CHOOSE i \in 1..Len(steps) : steps[i] = name

Done(name) == \E i \in 1..Len(steps) : steps[i] = name

Serving == pc = "serving" \/ LastOp # "none"

\* C10: requests are served only after the five configuration values were
\* found non-empty, the ping succeeded and the table statement succeeded,
\* in that order; a failure of any of the three ends the process, and then
\* no request is ever served.
C10_StartupOrdering ==
    /\ [](Serving =>
            /\ \A k \in ConfigKeys : env.config[k] # ""
            /\ env.pingOk
            /\ env.createOk
            /\ Done("creds") /\ Done("ping") /\ Done("create")
            /\ Position("creds") < Position("ping")
            /\ Position("ping") < Position("create"))
    /\ [](pc = "exited" => LastOp = "none")
    /\ [][ ( \/ pc = "creds" /\ \E k \in ConfigKeys : env.config[k] = ""
             \/ pc = "ping" /\ ~env.pingOk
             \/ pc = "create" /\ ~env.createOk ) => pc' = "exited" ]_vars

C10_Witness ==
    /\ pc = "serving"
    /\ LastOp = "get"
    /\ last.status = 200

IdsOf(t) == {r.id : r \in t}

AsRow(id, book) == [id |-> id, title |-> book.Title, author |-> book.Author, year |-> book.Year]

\* C11: an update answered 200 for path id i leaves the set of ids and every
\* other row as they were, makes row i hold the body's title, author and
\* year, and returns the path id; a create answered 201 adds one row under
\* the id the store assigned, which is the id it returns. An id field in the
\* body decides neither.
C11_IdImmutable ==
    /\ (LastOp = "update" /\ last.status = 200) =>
           /\ IdsOf(table) = IdsOf(before)
           /\ \A r \in before : r.id # LastId.val => r \in table
           /\ \A r \in table : r.id # LastId.val => r \in before
           /\ \A r \in table : r.id = LastId.val => r = AsRow(LastId.val, LastBook)
           /\ last.out.book = [LastBook EXCEPT !.ID = LastId.val]
    /\ (LastOp = "create" /\ last.status = 201) =>
           /\ last.out.book.ID = nextId - 1
           /\ last.out.book.ID \notin IdsOf(before)
           /\ table = before \cup {AsRow(last.out.book.ID, LastBook)}
           /\ last.out.book = [LastBook EXCEPT !.ID = nextId - 1]

C11_Witness ==
    /\ LastOp = "update"
    /\ last.status = 200
    /\ "id" \in LastBody.has
    /\ LastBody.id # LastId.val
    /\ Cardinality(table) = 2
    /\ \E r \in before : r.id = LastId.val /\ r \notin table

\* The DeleteBook calls that got as far as an id, for id i.
DeletesOf(i) == {p \in Procs : procs[p].pc # "idle" /\ procs[p].status # 400 /\ procs[p].id = i}

\* C12: of two or more deletes of one id whose row existed when one of them
\* arrived, however their statements and responses interleave, once all
\* are answered without storage error exactly one was answered 200, every
\* other one 404, and the row is gone.
C12_ConcurrentDeletes ==
    \A i \in {procs[p].id : p \in Procs} :
        ( /\ Cardinality(DeletesOf(i)) >= 2
          /\ \E p \in DeletesOf(i) : procs[p].existed
          /\ \A p \in DeletesOf(i) : procs[p].pc = "done" /\ ~procs[p].failed )
        => /\ Cardinality({p \in DeletesOf(i) : procs[p].status = 200}) = 1
           /\ \A p \in DeletesOf(i) : procs[p].status \in {200, 404}
           /\ i \notin IdsOf(table)

C12_Witness ==
    \E p, q \in Procs :
        /\ p # q
        /\ procs[p].pc = "done" /\ procs[q].pc = "done"
        /\ procs[p].id = procs[q].id
        /\ procs[p].existed /\ procs[q].existed
        /\ procs[q].overlap
        /\ procs[p].status = 404 /\ procs[q].status = 200
        /\ table # {}

\* C13: a create, update or delete that is answered 400, 404 or 500 leaves
\* the table as it was, also when the statement was executed and the error
\* came from reading the inserted id or the affected-row count.
C13_NoEffectOnFailure ==
    (LastOp \in {"create", "update", "delete"} /\ last.status \in {400, 404, 500}) =>
        table = before
====
